---- MODULE Spec2Model ----
(***************************************************************************)
(* Model of the text2speech HTTP gateway (Express handlers over a flat     *)
(* output directory and the Azure speech SDK).                             *)
(*                                                                         *)
(* The handlers are Node.js callbacks: the synchronous body of a handler   *)
(* is one atomic step; a validation middleware, the handler it guards and  *)
(* a gateway callback are separate steps that interleave with the steps    *)
(* of other requests.                                                      *)
(*                                                                         *)
(* The output file is written by the SDK, whose source is not part of the  *)
(* repository: the handler only passes the path to                         *)
(* sdk.AudioConfig.fromAudioFileOutput and never unlinks it.  The point at *)
(* which the SDK creates the file is a property of the installed SDK       *)
(* build, so it is a choice fixed in Init (writerOpensFile): TRUE, the     *)
(* file writer opens (creates) the path when the AudioConfig is built;     *)
(* FALSE, the file appears only when synthesis completes.                  *)
(***************************************************************************)
EXTENDS Integers, Sequences, FiniteSets, Bags, TLC

\* ---------------------------------------------------------------- bounds
\* number of requests that can be in progress at the same time
MaxInFlight == 2

\* ------------------------------------------------------ program constants
fileLimit == 100
MaxTextLen == 100
MaxVoiceLen == 50

\* ------------------------------------------------------------------ state
VARIABLES
    files,                      \* output directory: key -> content of <key>.mp3
    foreign,                    \* other entries of the output directory
    writerOpensFile,            \* SDK build: file created when AudioConfig is built
    speechSynthesisVoiceName,   \* config.speechConfig, shared by all requests
    inflight,                   \* bag of the requests in progress
    invoked,                    \* keys the gateway was called for since their last delete
    res,                        \* the last response sent
    fp                          \* the create requests fingerprinted so far (SpecFingerprint)

vars == <<files, foreign, writerOpensFile, speechSynthesisVoiceName, inflight, invoked, res, fp>>

\* ------------------------------------------------------------ JSON values
\* A JSON member: name, JSON type of the value, its text and its length.
Member(n, t, s, l) == [name |-> n, type |-> t, s |-> s, len |-> l]

\* req.body.<name> of a member that is not there
Undefined == Member("", "undefined", "", 0)

TextHello == Member("text", "string", "Hello", 5)
TextBye == Member("text", "string", "Bye", 3)
TextEmpty == Member("text", "string", "", 0)
TextLong == Member("text", "string", "L101", MaxTextLen + 1)
VoiceAva == Member("voice", "string", "Ava", 3)
VoiceEmma == Member("voice", "string", "Emma", 4)
VoiceNumber == Member("voice", "number", "7", 1)
VoiceLong == Member("voice", "string", "V51", MaxVoiceLen + 1)
SpeedTwo == Member("speed", "number", "2", 1)

Texts == <<TextHello, TextBye, TextEmpty, TextLong, Undefined>>
Voices == <<Undefined, VoiceAva, VoiceEmma, VoiceNumber, VoiceLong>>
Extras == <<Undefined, SpeedTwo>>

\* A request body is a JSON object: its members in the order the client
\* wrote them (express.json keeps that order).
MakeBody(text, voice, extra, voiceFirst) ==
    SelectSeq(IF voiceFirst THEN <<voice, text, extra>> ELSE <<text, voice, extra>>,
              LAMBDA m : m # Undefined)

NumBodies == Len(Texts) * Len(Voices) * Len(Extras) * 2

BodyAt(i) ==
    LET j == i - 1 IN
    MakeBody(Texts[(j % Len(Texts)) + 1],
             Voices[((j \div Len(Texts)) % Len(Voices)) + 1],
             Extras[((j \div (Len(Texts) * Len(Voices))) % Len(Extras)) + 1],
             (j \div (Len(Texts) * Len(Voices) * Len(Extras))) = 1)

\* every body above, for the checks of the fingerprint and of validation
RequestBodies == {BodyAt(i) : i \in 1..NumBodies}

\* the bodies the clients of the server send in Spec
Bodies == {<<TextHello>>, <<TextHello, VoiceAva>>, <<TextLong>>}

\* A request to POST /text2speech: req.body and req.query (the members of
\* the query string, which stand for every request location that is not
\* the body: query, params, headers, cookies).
Request(body, query) == [body |-> body, query |-> query]

\* the create requests of Spec: a body and no query string
Requests == {Request(b, <<>>) : b \in Bodies}

\* the create requests of SpecCreate: each way a text can be wrong, each
\* way a voice can be wrong, and a body without text sent with and without
\* a text in the query string
CreateTexts == {TextHello, TextEmpty, TextLong, Undefined}
CreateVoices == {Undefined, VoiceAva, VoiceNumber, VoiceLong}
CreateQueries == {<<>>, <<TextBye>>}

CreateRequests ==
    {Request(MakeBody(t, Undefined, Undefined, FALSE), <<>>) : t \in CreateTexts}
    \cup {Request(MakeBody(TextHello, v, Undefined, FALSE), <<>>) : v \in CreateVoices}
    \cup {Request(<<>>, q) : q \in CreateQueries}

\* req.body.<name>
Field(body, n) ==
    IF \E i \in 1..Len(body) : body[i].name = n
    THEN body[CHOOSE i \in 1..Len(body) : body[i].name = n]
    ELSE Undefined

\* JSON.stringify(req.body): every member, in the order of the object
Stringify(body) == [i \in 1..Len(body) |-> <<body[i].name, body[i].type, body[i].s>>]

\* ------------------------------------------------------------------- keys
\* An md5 digest is a 32 hex digit token.  Tokens are numbered: the digest
\* of a string is the number of the first body that serializes to it (md5
\* taken as collision free on these strings), and token 0 is a string that
\* is not an md5 token.
Serializations == [i \in 1..NumBodies |-> Stringify(BodyAt(i))]

Digest(str) ==
    CHOOSE i \in 1..NumBodies :
        Serializations[i] = str /\ \A j \in 1..(i - 1) : Serializations[j] # str

BadKey == 0
NoKey == 0 - 1

isMD5(k) == k >= 1

\* the digest taken over the text alone
md5Hash_TextOnly(body) == Digest(Stringify(SelectSeq(body, LAMBDA m : m.name = "text")))

\* the digest taken over the body and a per-request value
md5Hash_Salted(body) == Digest(Stringify(body)) + Len(fp)

md5Hash(body) == Digest(Stringify(body))

\* ------------------------------------------------------------- validation
\* check('text').notEmpty().isLength({ max: 100 })
\* check('voice').optional().isString().isLength({ max: 50 })
\* A chain built by check(field) validates the field in every request
\* location: the instances that have a value must all pass; when no
\* location has the field, one instance without value is validated.
Instances(req, n) ==
    LET found == {m \in {Field(req.body, n), Field(req.query, n)} : m # Undefined}
    IN IF found = {} THEN {Undefined} ELSE found

\* .notEmpty().isLength({ max: 100 })
ValidText(m) == m # Undefined /\ m.len > 0 /\ m.len <= MaxTextLen

\* .optional().isString().isLength({ max: 50 })
ValidVoice(m) == m = Undefined \/ (m.type = "string" /\ m.len <= MaxVoiceLen)

\* validationResult(req).isEmpty()
ValidCreate(req) ==
    /\ \A m \in Instances(req, "text") : ValidText(m)
    /\ \A m \in Instances(req, "voice") : ValidVoice(m)

\* ------------------------------------------------------- requests, replies
Absent == "absent"
Empty == "empty"
Audio == "audio"

\* a request in progress: a create waiting for the gateway (body, key, the
\* text passed to speakTextAsync, the voice its synthesizer was built with, linked: its open output file is
\* still the directory entry, seen: the length of the directory that its
\* capacity guard has read, id: which of the pending gateway calls it is), a fetch or delete that its validation
\* chain has accepted and whose handler has not run yet (key), or a voices
\* request waiting for the provider (gender).
NoRequest == [op |-> "none", body |-> <<>>, query |-> <<>>, key |-> NoKey, text |-> "", voice |-> "",
              linked |-> FALSE, seen |-> 0, id |-> 0, gender |-> "",
              synthesizer |-> "none"]

\* a response: status 0 with threw = TRUE stands for a handler that raised
\* (its promise rejects and nothing is sent); hit marks the answer of the
\* "file already exists" branch of the create handler; n is the length of
\* the directory as the handler has read it; closed is the number of times
\* the step that answered has closed the request's synthesizer.
NoResponse == [op |-> "none", status |-> 0, fileKey |-> NoKey, body |-> <<>>, query |-> <<>>,
               key |-> NoKey,
               keys |-> <<>>, n |-> 0, content |-> "", voices |-> <<>>, threw |-> FALSE,
               hit |-> FALSE, closed |-> 0]

\* the server has room for one more request in progress
CanAccept == BagCardinality(inflight) < MaxInFlight

InFlight == BagToSet(inflight)

Add(r) == inflight (+) SetToBag({r})

\* the request left in progress after its answer
Remove_Keep(r) == inflight

Remove(r) == inflight (-) SetToBag({r})

Response(op, status) == [NoResponse EXCEPT !.op = op, !.status = status]

\* the pending calls of speakTextAsync are told apart by a number: a new
\* call takes the lowest number that no pending call has
Calls == 1..MaxInFlight

Pending(i) == \E r \in InFlight : r.op = "create" /\ r.id = i

NextCall == CHOOSE i \in Calls : ~Pending(i) /\ \A j \in 1..(i - 1) : Pending(j)

\* the response of the create handler to req
PostResponse(req, status) ==
    [Response("post", status) EXCEPT !.body = req.body, !.query = req.query]

\* ------------------------------------------------------------ file store
\* the names the modelled requests can give to an output file, and the
\* fileKey parameters a client sends
Keys == {md5Hash(r.body) : r \in {c \in Requests \cup CreateRequests : ValidCreate(c)}}
FileKeys == {md5Hash(r.body) : r \in {c \in Requests : ValidCreate(c)}} \cup {BadKey}

\* the lookup of a path that is never there (extension left out)
fileWithKeyExists_NoExtension(k) == k \in Keys /\ files[k] = "noext"

fileWithKeyExists(k) == k \in Keys /\ files[k] # Absent

\* readdirSync(config.audioFileOutputDir).length
readdirLength == Cardinality({k \in Keys : files[k] # Absent}) + foreign

\* no guard
hasGeneratedFileLimitBeenReached_Never == readdirLength < 0

\* the guard at twice the limit
hasGeneratedFileLimitBeenReached_Doubled == readdirLength > 2 * fileLimit

\* the guard off by one more
hasGeneratedFileLimitBeenReached_OffByOne == readdirLength > fileLimit + 1

hasGeneratedFileLimitBeenReached == readdirLength > fileLimit

Init ==
    /\ fp = <<>>
    /\ files = [k \in Keys |-> Absent]
    /\ foreign \in {fileLimit - 1, fileLimit}
    /\ writerOpensFile \in BOOLEAN
    /\ speechSynthesisVoiceName = ""
    /\ inflight = EmptyBag
    /\ invoked = {}
    /\ res = NoResponse

\* -------------------------------------------------------- POST /text2speech
\* a create that finds a synthesis of its key under way answers with the
\* key instead of starting another one
generateSpeechFromText_Joined(req, k) ==
    IF \E r \in InFlight : r.op = "create" /\ r.key = k
    THEN /\ res' = [PostResponse(req, 200) EXCEPT !.fileKey = k]
         /\ UNCHANGED <<files, foreign, writerOpensFile, fp, speechSynthesisVoiceName, inflight, invoked>>
    ELSE /\ speechSynthesisVoiceName' = Field(req.body, "voice").s
         /\ files' = IF writerOpensFile THEN [files EXCEPT ![k] = Empty] ELSE files
         /\ inflight' = Add([NoRequest EXCEPT !.op = "create", !.body = req.body,
                                             !.query = req.query, !.key = k,
                                             !.text = Field(req.body, "text").s,
                                             !.voice = speechSynthesisVoiceName',
                                             !.linked = writerOpensFile,
                                             !.seen = readdirLength, !.id = NextCall,
                                        !.synthesizer = "open"])
         /\ invoked' = invoked \cup {k}
         /\ UNCHANGED <<foreign, writerOpensFile, fp, res>>

\* the voice of the shared configuration set only by a request that has one
generateSpeechFromText_KeepVoice(req, k) ==
    /\ speechSynthesisVoiceName' = IF Field(req.body, "voice") = Undefined
                                   THEN speechSynthesisVoiceName
                                   ELSE Field(req.body, "voice").s
    /\ files' = IF writerOpensFile THEN [files EXCEPT ![k] = Empty] ELSE files
    /\ inflight' = Add([NoRequest EXCEPT !.op = "create", !.body = req.body,
                                        !.query = req.query, !.key = k,
                                        !.text = Field(req.body, "text").s,
                                        !.voice = speechSynthesisVoiceName',
                                        !.linked = writerOpensFile,
                                        !.seen = readdirLength, !.id = NextCall,
                                        !.synthesizer = "open"])
    /\ invoked' = invoked \cup {k}
    /\ UNCHANGED <<foreign, writerOpensFile, fp, res>>

\* generateSpeechFromText up to the call of speakTextAsync: the voice is
\* written to the configuration that all requests share, the synthesizer
\* is built from that configuration and the text is passed to it
generateSpeechFromText(req, k) ==
    /\ speechSynthesisVoiceName' = Field(req.body, "voice").s
    /\ files' = IF writerOpensFile THEN [files EXCEPT ![k] = Empty] ELSE files
    /\ inflight' = Add([NoRequest EXCEPT !.op = "create", !.body = req.body,
                                        !.query = req.query, !.key = k,
                                        !.text = Field(req.body, "text").s,
                                        !.voice = speechSynthesisVoiceName',
                                        !.linked = writerOpensFile,
                                        !.seen = readdirLength, !.id = NextCall,
                                        !.synthesizer = "open"])
    /\ invoked' = invoked \cup {k}
    /\ UNCHANGED <<foreign, writerOpensFile, fp, res>>

\* the capacity guard taken before the cache lookup
PostText2Speech_LimitFirst(req) ==
    /\ CanAccept
    /\ IF ~ValidCreate(req)
       THEN /\ res' = PostResponse(req, 400)
            /\ UNCHANGED <<files, foreign, writerOpensFile, fp, speechSynthesisVoiceName, inflight, invoked>>
       ELSE LET audioFileName == md5Hash(req.body) IN
            IF hasGeneratedFileLimitBeenReached
            THEN /\ res' = PostResponse(req, 507)
                 /\ UNCHANGED <<files, foreign, writerOpensFile, fp, speechSynthesisVoiceName, inflight, invoked>>
            ELSE IF fileWithKeyExists(audioFileName)
            THEN /\ res' = [PostResponse(req, 200) EXCEPT !.fileKey = audioFileName, !.hit = TRUE]
                 /\ UNCHANGED <<files, foreign, writerOpensFile, fp, speechSynthesisVoiceName, inflight, invoked>>
            ELSE generateSpeechFromText(req, audioFileName)

PostText2Speech(req) ==
    /\ CanAccept
    /\ IF ~ValidCreate(req)
       THEN /\ res' = PostResponse(req, 400)
            /\ UNCHANGED <<files, foreign, writerOpensFile, fp, speechSynthesisVoiceName, inflight, invoked>>
       ELSE LET audioFileName == md5Hash(req.body) IN
            IF fileWithKeyExists(audioFileName)
            THEN /\ res' = [PostResponse(req, 200) EXCEPT !.fileKey = audioFileName, !.hit = TRUE]
                 /\ UNCHANGED <<files, foreign, writerOpensFile, fp, speechSynthesisVoiceName, inflight, invoked>>
            ELSE IF hasGeneratedFileLimitBeenReached
            THEN /\ res' = PostResponse(req, 507)
                 /\ UNCHANGED <<files, foreign, writerOpensFile, fp, speechSynthesisVoiceName, inflight, invoked>>
            ELSE generateSpeechFromText(req, audioFileName)

\* the callbacks of synthesizer.speakTextAsync
SynthesisOutcomes == {"SynthesizingAudioCompleted", "Canceled", "error"}

\* the calls a callback makes on the response and on the synthesizer, in
\* the order it makes them
CreateCallback(outcome) ==
    IF outcome = "SynthesizingAudioCompleted" THEN <<"json", "close">>
    ELSE IF outcome = "Canceled" THEN <<"status", "close">>
    ELSE <<"close", "status">>

\* the number of synthesizer.close() among the calls
Closes(calls) == Cardinality({i \in 1..Len(calls) : calls[i] = "close"})

\* a failed synthesis started again instead of being answered
SpeakTextAsyncDone_Retry(r, outcome) ==
    /\ r \in InFlight
    /\ r.op = "create"
    /\ IF outcome = "SynthesizingAudioCompleted"
       THEN /\ files' = IF writerOpensFile
                        THEN (IF r.linked THEN [files EXCEPT ![r.key] = Audio] ELSE files)
                        ELSE [files EXCEPT ![r.key] = Audio]
            /\ res' = [PostResponse(r, 200) EXCEPT !.fileKey = r.key, !.n = r.seen,
                                                   !.closed = Closes(CreateCallback(outcome))]
            /\ inflight' = Remove(r)
            /\ UNCHANGED speechSynthesisVoiceName
       ELSE /\ speechSynthesisVoiceName' = Field(r.body, "voice").s
            /\ files' = IF writerOpensFile THEN [files EXCEPT ![r.key] = Empty] ELSE files
            /\ res' = res
            /\ inflight' = Remove(r) (+) SetToBag({[r EXCEPT !.voice = speechSynthesisVoiceName',
                                                             !.linked = writerOpensFile]})
    /\ UNCHANGED <<foreign, writerOpensFile, fp, invoked>>

SpeakTextAsyncDone(r, outcome) ==
    /\ r \in InFlight
    /\ r.op = "create"
    /\ IF outcome = "SynthesizingAudioCompleted"
       THEN /\ files' = IF writerOpensFile
                        THEN (IF r.linked THEN [files EXCEPT ![r.key] = Audio] ELSE files)
                        ELSE [files EXCEPT ![r.key] = Audio]
            /\ res' = [PostResponse(r, 200) EXCEPT !.fileKey = r.key, !.n = r.seen,
                                                   !.closed = Closes(CreateCallback(outcome))]
       ELSE /\ files' = files
            /\ res' = [PostResponse(r, 500) EXCEPT !.n = r.seen,
                                                   !.closed = Closes(CreateCallback(outcome))]
    /\ inflight' = Remove(r)
    /\ UNCHANGED <<foreign, writerOpensFile, fp, speechSynthesisVoiceName, invoked>>

\* ------------------------------------------- GET /text2speech/:fileKey
\* check('fileKey').isMD5().bail().custom(value => fileWithKeyExists(value))
\* the chain without its custom validator
ValidFileKey_FormatOnly(k) == isMD5(k)

ValidFileKey(k) == isMD5(k) /\ fileWithKeyExists(k)

\* The validation chain runs before the handler.  When it finds an error
\* the handler only sends the 400, reading nothing, so chain and handler
\* are one step; when it accepts, the handler is a later step.
GetValidate(k) ==
    /\ CanAccept
    /\ IF ValidFileKey(k)
       THEN /\ inflight' = Add([NoRequest EXCEPT !.op = "get", !.key = k])
            /\ UNCHANGED res
       ELSE /\ res' = [Response("get", 400) EXCEPT !.key = k]
            /\ UNCHANGED inflight
    /\ UNCHANGED <<files, foreign, writerOpensFile, fp, speechSynthesisVoiceName, invoked>>

\* res.sendFile: streams the file, 404 through the error handler when the
\* file is not there any more
\* the file looked up under another root than the output directory
retrieveAudioFile_WrongRoot(k) == [Response("get", 404) EXCEPT !.key = k]

retrieveAudioFile(k) ==
    IF fileWithKeyExists(k)
    THEN [Response("get", 200) EXCEPT !.key = k, !.content = files[k]]
    ELSE [Response("get", 404) EXCEPT !.key = k]

\* a fetch that removes the entry it has served
GetFile_Consume(r) ==
    /\ r \in InFlight
    /\ r.op = "get"
    /\ res' = retrieveAudioFile(r.key)
    /\ inflight' = Remove(r)
    /\ files' = [files EXCEPT ![r.key] = Absent]
    /\ UNCHANGED <<foreign, writerOpensFile, fp, speechSynthesisVoiceName, invoked>>

GetFile(r) ==
    /\ r \in InFlight
    /\ r.op = "get"
    /\ res' = retrieveAudioFile(r.key)
    /\ inflight' = Remove(r)
    /\ UNCHANGED <<files, foreign, writerOpensFile, fp, speechSynthesisVoiceName, invoked>>

\* ---------------------------------------- DELETE /text2speech/:fileKey
DeleteValidate(k) ==
    /\ CanAccept
    /\ IF ValidFileKey(k)
       THEN /\ inflight' = Add([NoRequest EXCEPT !.op = "delete", !.key = k])
            /\ UNCHANGED res
       ELSE /\ res' = [Response("delete", 400) EXCEPT !.key = k]
            /\ UNCHANGED inflight
    /\ UNCHANGED <<files, foreign, writerOpensFile, fp, speechSynthesisVoiceName, invoked>>

\* unlinkSync removes the directory entry; a synthesizer that has the file
\* open keeps writing to the unlinked file
Unlink(k, q) == IF q.op = "create" /\ q.key = k THEN [q EXCEPT !.linked = FALSE] ELSE q

Unlinked(k, bag) == BagOfAll(LAMBDA q : Unlink(k, q), bag)

\* every file of the directory removed
unlinkSync_All(k) == [j \in Keys |-> Absent]

\* another path than the entry's unlinked
unlinkSync_WrongPath(k) == files

\* unlinkSync(`${config.audioFileOutputDir}/${audioFileName}`) of a file that is there
unlinkSync(k) == [files EXCEPT ![k] = Absent]

DeleteFile(r) ==
    /\ r \in InFlight
    /\ r.op = "delete"
    /\ IF fileWithKeyExists(r.key)
       THEN /\ files' = unlinkSync(r.key)
            /\ invoked' = invoked \ {r.key}
            /\ inflight' = Unlinked(r.key, Remove(r))
            /\ res' = [Response("delete", 200) EXCEPT !.key = r.key]
       ELSE \* unlinkSync throws ENOENT inside the async handler
            /\ res' = [Response("delete", 0) EXCEPT !.key = r.key, !.threw = TRUE]
            /\ inflight' = Remove(r)
            /\ UNCHANGED <<files, invoked>>
    /\ UNCHANGED <<foreign, writerOpensFile, fp, speechSynthesisVoiceName>>

\* -------------------------------------------------------- GET /text2speech
\* a file name is its stem followed by its extension:
\* `${audioFileName}${config.audioFileExtension}`
audioFileExtension == ".mp3"

Name(stem, extension) == [stem |-> stem, extension |-> extension]

FileName(k) == Name(k, audioFileExtension)

\* the names readdirSync finds for the modelled keys (the other entries of
\* the directory are only counted), and the orders it can return them in
readdirSync == {FileName(k) : k \in {j \in Keys : files[j] # Absent}}

Enumerations(S) ==
    {s \in [1..Cardinality(S) -> S] : \A i, j \in 1..Cardinality(S) : s[i] = s[j] => i = j}

\* file.replace that finds nothing to replace
Replace_Nothing(file, pattern) == file

\* file.replace(pattern, ""): the first occurrence of the pattern removed
\* (the stem is a string of hexadecimal digits and holds no occurrence)
Replace(file, pattern) ==
    IF file.extension = pattern THEN Name(file.stem, "") ELSE file

ListFiles ==
    /\ \E listing \in Enumerations(readdirSync) :
          res' = [Response("list", 200)
                    EXCEPT !.keys = [i \in 1..Len(listing) |-> Replace(listing[i], audioFileExtension)],
                           !.n = readdirLength]
    /\ UNCHANGED <<files, foreign, writerOpensFile, fp, speechSynthesisVoiceName, inflight, invoked>>

\* ------------------------------------------------------------- GET /voices
Genders == {"", "Female", "Robot"}
Locales == {"", "en_US"}

\* check('locale').optional().matches(/^[a-zA-Z0-9-]+$/).isLength({ max: 15 })
\* check('gender').optional().isIn(['Female', 'Male', 'Neutral'])
ValidVoicesQuery(locale, gender) ==
    /\ locale \in {"", "en-US"}
    /\ gender \in {"", "Female", "Male", "Neutral"}

\* the SDK's enumeration of voice genders, and the handler's table from the
\* query value to it
SynthesisVoiceGender == [Unknown |-> 0, Female |-> 1, Male |-> 2, Neutral |-> 3]

\* the table numbered from Female
genderEnum_FromFemale == [Female |-> 0, Male |-> 1, Neutral |-> 2]

genderEnum ==
    [Female |-> SynthesisVoiceGender.Female,
     Male |-> SynthesisVoiceGender.Male,
     Neutral |-> SynthesisVoiceGender.Neutral]

Voice(n, g) == [shortName |-> n, gender |-> g]

\* result.voices of the provider reply in Spec
ProviderVoices ==
    {<<Voice("Ava", SynthesisVoiceGender.Female), Voice("Guy", SynthesisVoiceGender.Male),
       Voice("Emma", SynthesisVoiceGender.Female)>>}

\* the queries and the provider replies of SpecVoices
VoicesGenders == {"", "Female", "Male", "Neutral", "Robot"}
VoicesLocales == {"", "en-US", "en_US"}

VoiceLists ==
    ProviderVoices
    \cup {<<>>,
          <<Voice("Guy", SynthesisVoiceGender.Male), Voice("Ash", SynthesisVoiceGender.Neutral),
            Voice("Ava", SynthesisVoiceGender.Female), Voice("Old", SynthesisVoiceGender.Unknown),
            Voice("Sam", SynthesisVoiceGender.Neutral)>>}

VoicesOutcomes == {"VoicesListRetrieved", "Canceled", "throw"}

GetVoices(locale, gender) ==
    /\ CanAccept
    /\ IF ~ValidVoicesQuery(locale, gender)
       THEN /\ res' = Response("voices", 400)
            /\ UNCHANGED inflight
       ELSE /\ inflight' = Add([NoRequest EXCEPT !.op = "voices", !.gender = gender,
                                              !.synthesizer = "open"])
            /\ UNCHANGED res
    /\ UNCHANGED <<files, foreign, writerOpensFile, fp, speechSynthesisVoiceName, invoked>>

FilterGender(voices, gender) ==
    IF gender # "" THEN SelectSeq(voices, LAMBDA v : v.gender = genderEnum[gender]) ELSE voices

ShortNames(voices) == [i \in 1..Len(voices) |-> voices[i].shortName]

\* the handler without its finally block
VoicesCompletion_NoFinally(outcome) ==
    IF outcome = "VoicesListRetrieved" THEN <<"json">> ELSE <<"status">>

\* the calls the handler makes after getVoicesAsync: the try or the catch
\* block, then the finally block
VoicesCompletion(outcome) ==
    (IF outcome = "VoicesListRetrieved" THEN <<"json">> ELSE <<"status">>) \o <<"close">>

GetVoicesAsyncDone(r, outcome, voices) ==
    /\ r \in InFlight
    /\ r.op = "voices"
    /\ res' = IF outcome = "VoicesListRetrieved"
              THEN [Response("voices", 200)
                      EXCEPT !.voices = ShortNames(FilterGender(voices, r.gender)),
                             !.closed = Closes(VoicesCompletion(outcome))]
              ELSE [Response("voices", 500) EXCEPT !.closed = Closes(VoicesCompletion(outcome))]
    /\ inflight' = Remove(r)
    /\ UNCHANGED <<files, foreign, writerOpensFile, fp, speechSynthesisVoiceName, invoked>>

Next ==
    \/ \E req \in Requests : PostText2Speech(req)
    \/ \E r \in InFlight, outcome \in SynthesisOutcomes : SpeakTextAsyncDone(r, outcome)
    \/ \E k \in FileKeys : GetValidate(k)
    \/ \E r \in InFlight : GetFile(r)
    \/ \E k \in FileKeys : DeleteValidate(k)
    \/ \E r \in InFlight : DeleteFile(r)
    \/ ListFiles
    \/ \E locale \in Locales, gender \in Genders : GetVoices(locale, gender)
    \/ \E r \in InFlight, outcome \in VoicesOutcomes, voices \in ProviderVoices : GetVoicesAsyncDone(r, outcome, voices)

Spec == Init /\ [][Next]_vars

\* ------------------------------------------------ the fingerprint alone
\* The first lines of the create handler, applied to two requests in a
\* row: the validation result and, for an accepted request, md5Hash().
MaxFingerprinted == 2

HashRequest(body) ==
    /\ Len(fp) < MaxFingerprinted
    /\ fp' = Append(fp, [body |-> body,
                         valid |-> ValidCreate(Request(body, <<>>)),
                         key |-> IF ValidCreate(Request(body, <<>>)) THEN md5Hash(body) ELSE NoKey])
    /\ UNCHANGED <<files, foreign, writerOpensFile, speechSynthesisVoiceName, inflight, invoked, res>>

InitFingerprint ==
    /\ fp = <<>>
    /\ files = [k \in Keys |-> Absent]
    /\ foreign = 0
    /\ writerOpensFile = TRUE
    /\ speechSynthesisVoiceName = ""
    /\ inflight = EmptyBag
    /\ invoked = {}
    /\ res = NoResponse

NextFingerprint == \E body \in RequestBodies : HashRequest(body)

SpecFingerprint == InitFingerprint /\ [][NextFingerprint]_vars

\* ------------------------------------------- the create handler alone
\* POST /text2speech and its gateway callbacks, for every create request
\* of CreateRequests
InitCreate ==
    /\ fp = <<>>
    /\ files = [k \in Keys |-> Absent]
    /\ foreign = fileLimit
    /\ writerOpensFile \in BOOLEAN
    /\ speechSynthesisVoiceName = ""
    /\ inflight = EmptyBag
    /\ invoked = {}
    /\ res = NoResponse

NextCreate ==
    \/ \E req \in CreateRequests : PostText2Speech(req)
    \/ \E r \in InFlight, outcome \in SynthesisOutcomes : SpeakTextAsyncDone(r, outcome)

SpecCreate == InitCreate /\ [][NextCreate]_vars

\* the gateway reports on every call it has received: each pending call
\* of speakTextAsync eventually runs one of its two callbacks
GatewayReports(i) ==
    \E r \in InFlight, outcome \in SynthesisOutcomes :
        r.id = i /\ SpeakTextAsyncDone(r, outcome)

SpecCreateLive == SpecCreate /\ \A i \in Calls : WF_vars(GatewayReports(i))

\* ------------------------------- create requests handled one at a time
\* a client that sends a create only when no create is under way
NoCreatePending == \A r \in InFlight : r.op # "create"

NextOneAtATime ==
    \/ \E req \in Requests : NoCreatePending /\ PostText2Speech(req)
    \/ \E r \in InFlight, outcome \in SynthesisOutcomes : SpeakTextAsyncDone(r, outcome)
    \/ \E k \in FileKeys : GetValidate(k)
    \/ \E r \in InFlight : GetFile(r)
    \/ \E k \in FileKeys : DeleteValidate(k)
    \/ \E r \in InFlight : DeleteFile(r)
    \/ ListFiles
    \/ \E locale \in Locales, gender \in Genders : GetVoices(locale, gender)
    \/ \E r \in InFlight, outcome \in VoicesOutcomes, voices \in ProviderVoices : GetVoicesAsyncDone(r, outcome, voices)

SpecOneAtATime == Init /\ [][NextOneAtATime]_vars

\* ------------------------------------------- the voices handler alone
InitVoices ==
    /\ fp = <<>>
    /\ files = [k \in Keys |-> Absent]
    /\ foreign = fileLimit
    /\ writerOpensFile \in BOOLEAN
    /\ speechSynthesisVoiceName = ""
    /\ inflight = EmptyBag
    /\ invoked = {}
    /\ res = NoResponse

NextVoices ==
    \/ \E locale \in VoicesLocales, gender \in VoicesGenders : GetVoices(locale, gender)
    \/ \E r \in InFlight, outcome \in VoicesOutcomes, voices \in VoiceLists :
          GetVoicesAsyncDone(r, outcome, voices)

SpecVoices == InitVoices /\ [][NextVoices]_vars

\* ================================================================ claims
\* a cache entry for token k is in the output directory
Present(k) == k \in Keys /\ files[k] # Absent

\* number of entries of the output directory
EntryCount == Cardinality({k \in Keys : files[k] # Absent}) + foreign

\* the step is the create handler of a request that validation accepts
\* and whose fingerprint has no cache entry
CacheMissCreate(req) ==
    /\ PostText2Speech(req)
    /\ ValidCreate(req)
    /\ ~Present(md5Hash(req.body))

\* the step is the create handler of an accepted request whose fingerprint
\* has a cache entry
CacheHitCreate(req) ==
    /\ PostText2Speech(req)
    /\ ValidCreate(req)
    /\ Present(md5Hash(req.body))

\* the step hands a request for token k to the synthesis gateway
GatewayInvoked(req) ==
    /\ PostText2Speech(req)
    /\ BagCardinality(inflight') = BagCardinality(inflight) + 1

\* C1: starting with at most fileLimit entries, the output directory never
\* holds more than fileLimit entries.
C1_CapacityInvariant == EntryCount <= fileLimit

\* C2: a valid cache-miss create handled while the directory holds exactly
\* fileLimit entries is answered 507 and is not handed to the gateway.
C2_RejectAtLimit ==
    [][\A req \in Requests :
          CacheMissCreate(req) /\ EntryCount = fileLimit
          => res'.op = "post" /\ res'.status = 507 /\ inflight' = inflight]_vars

\* C3: a valid create whose fingerprint has a cache entry is answered 200
\* with that fingerprint as fileKey, without a gateway call and without a
\* change of the output directory, whatever the entry count is.
C3_CacheHitShortCircuit ==
    [][\A req \in Requests :
          CacheHitCreate(req)
          => /\ res'.op = "post" /\ res'.status = 200
             /\ res'.fileKey = md5Hash(req.body) /\ res'.body = req.body
             /\ inflight' = inflight
             /\ invoked' = invoked
             /\ files' = files /\ foreign' = foreign]_vars

\* a create was answered from the cache while the directory held more
\* than fileLimit entries
C3_Witness ==
    /\ res.op = "post" /\ res.status = 200 /\ res.hit
    /\ Present(res.fileKey)
    /\ EntryCount > fileLimit

\* no create for token k is waiting for the gateway
NoneAtGateway(k) == \A r \in InFlight : ~(r.op = "create" /\ r.key = k)

\* C4 as stated: every submission of a valid request returns its fileKey
\* (200 with the fingerprint of the body), and of the submissions made
\* one after another with no delete of the key in between only the first
\* calls the gateway.
C4_IdempotentAsStated ==
    [][/\ (res' # res /\ res'.op = "post" /\ ValidCreate(Request(res'.body, res'.query)))
           => (res'.status = 200 /\ res'.fileKey = md5Hash(res'.body))
       /\ \A req \in Requests :
             (GatewayInvoked(req) /\ NoneAtGateway(md5Hash(req.body)))
             => md5Hash(req.body) \notin invoked]_vars

\* C4 amended: every submission answered 200 returns the same fileKey, the
\* fingerprint of its body, and only a submission that finds no cache
\* entry for its key calls the gateway (a submission can also end in 500
\* or 507 without a fileKey).
C4_IdempotentCache ==
    [][/\ (res'.op = "post" /\ res'.status = 200)
           => res'.fileKey = md5Hash(res'.body)
       /\ \A req \in Requests :
             GatewayInvoked(req) => ~Present(md5Hash(req.body))]_vars

\* a repeated submission was answered from the cache with the key of the
\* audio its first submission had synthesized
C4_Witness ==
    /\ res.op = "post" /\ res.status = 200 /\ res.hit
    /\ res.fileKey \in invoked
    /\ files[res.fileKey] = Audio

\* C5 as stated: two accepted create requests with the same text and the
\* same voice (or both without voice) get the same key, whatever body
\* carries them.
SameTextAndVoice(a, b) ==
    /\ Field(a, "text") = Field(b, "text")
    /\ Field(a, "voice") = Field(b, "voice")

MemberNames(body) == [i \in 1..Len(body) |-> body[i].name]

OnlyTextAndVoice(body) == \A i \in 1..Len(body) : body[i].name \in {"text", "voice"}

C6_NoEntryAfterFailure ==
    [][\A r \in InFlight, outcome \in {"Canceled", "error"} :
          SpeakTextAsyncDone(r, outcome) => files'[r.key] = Absent]_vars

\* C7: every entry of the output directory is the output of a gateway call
\* that has completed with success; none is visible before.
C7_EntryOnlyAfterSuccess == \A k \in Keys : files[k] # Absent => files[k] = Audio

\* C8: a valid cache-miss create that observes more than fileLimit entries
\* is answered 507, without a gateway call and without a change of the
\* output directory.
C8_GuardRejects ==
    [][\A req \in Requests :
          CacheMissCreate(req) /\ EntryCount > fileLimit
          => /\ res'.op = "post" /\ res'.status = 507 /\ res'.body = req.body
             /\ inflight' = inflight
             /\ invoked' = invoked
             /\ files' = files /\ foreign' = foreign]_vars

\* a cache-miss create was rejected by the guard
C8_Witness ==
    /\ res.op = "post" /\ res.status = 507
    /\ ~Present(md5Hash(res.body))
    /\ EntryCount > fileLimit

\* C9: an entry leaves the output directory only in the handler of a
\* delete request for exactly its key, which answers 200 and removes no
\* other entry.
C9_NoEviction ==
    [][\A k \in Keys :
          (files[k] # Absent /\ files'[k] = Absent)
          => /\ \E r \in InFlight : r.op = "delete" /\ r.key = k /\ DeleteFile(r)
             /\ res'.op = "delete" /\ res'.status = 200 /\ res'.key = k
             /\ \A j \in Keys \ {k} : files'[j] = files[j]
             /\ foreign' = foreign]_vars

\* a delete removed its entry and left another entry in place
C9_Witness ==
    /\ res.op = "delete" /\ res.status = 200
    /\ ~Present(res.key)
    /\ \E j \in Keys : Present(j)

\* the last response is the success of a delete of k and no create has
\* been handed to the gateway for k since
AfterDelete(k) ==
    /\ res.op = "delete" /\ res.status = 200 /\ res.key = k
    /\ k \notin invoked

DeleteRemoves ==
    \A r \in InFlight :
        (DeleteFile(r) /\ res'.op = "delete" /\ res'.status = 200) => files'[r.key] = Absent

\* C10 as stated: after a successful delete of K the entry is gone, and
\* the next valid create for K is a cache miss that calls the gateway.
C10_RecreateAsStated ==
    [][/\ DeleteRemoves
       /\ \A req \in Requests :
             (ValidCreate(req) /\ AfterDelete(md5Hash(req.body)) /\ PostText2Speech(req))
             => (~Present(md5Hash(req.body)) /\ GatewayInvoked(req))]_vars

\* C10 amended: after a successful delete of K the entry is gone, and the
\* next valid create for K is a cache miss, never answered from the cache:
\* it calls the gateway again, unless the directory still holds more than
\* fileLimit entries, and then it is answered 507.
C10_Recreate ==
    [][/\ DeleteRemoves
       /\ \A req \in Requests :
             (ValidCreate(req) /\ AfterDelete(md5Hash(req.body)) /\ PostText2Speech(req))
             => /\ ~Present(md5Hash(req.body))
                /\ IF EntryCount > fileLimit
                   THEN res'.op = "post" /\ res'.status = 507 /\ inflight' = inflight
                   ELSE GatewayInvoked(req) /\ res' = res]_vars

\* after the delete of K answered 200, a create for K is at the gateway
C10_Witness ==
    /\ res.op = "delete" /\ res.status = 200
    /\ res.key \in invoked
    /\ \E r \in InFlight : r.op = "create" /\ r.key = res.key

\* the body is one the create validation is said to refuse: text missing,
\* empty or longer than MaxTextLen, or a voice that is not a string or is
\* longer than MaxVoiceLen
RefusedBody(body) ==
    LET text == Field(body, "text")
        voice == Field(body, "voice")
    IN \/ text = Undefined
       \/ text.len = 0
       \/ text.len > MaxTextLen
       \/ voice # Undefined /\ (voice.type # "string" \/ voice.len > MaxVoiceLen)

\* C11: a create request whose body has no text, an empty text or a text
\* longer than 100 characters, or a voice that is not a string or is longer
\* than 50 characters, is answered 400, is not handed to the gateway and
\* leaves the output directory unchanged.
C11_InvalidBodyRejected ==
    [][\A req \in CreateRequests :
          (PostText2Speech(req) /\ RefusedBody(req.body))
          => /\ res'.op = "post" /\ res'.status = 400
             /\ inflight' = inflight
             /\ invoked' = invoked
             /\ files' = files /\ foreign' = foreign]_vars

\* C12: a fetch or a delete whose fileKey is not an md5 token, or is one
\* but names no entry of the output directory, is answered 400 in its
\* validation step: the handler proper (sendFile, unlinkSync) never runs
\* for it and the output directory is unchanged.
C12_FetchDeleteGuarded ==
    [][\A k \in FileKeys :
          ((GetValidate(k) \/ DeleteValidate(k)) /\ (~isMD5(k) \/ ~Present(k)))
          => /\ res'.op \in {"get", "delete"} /\ res'.status = 400 /\ res'.key = k
             /\ inflight' = inflight
             /\ files' = files /\ foreign' = foreign]_vars

\* a delete of a well-formed key that names no entry was refused while
\* another entry was in the directory
C12_Witness ==
    /\ res.op = "delete" /\ res.status = 400
    /\ isMD5(res.key) /\ ~Present(res.key)
    /\ \E j \in Keys : Present(j)

\* C13: under every interleaving every handler ends by sending a response
\* and none raises out of its handler: a storage failure (unlinking a file
\* that is already gone) is answered as NotFound or as a server error.
C13_EveryHandlerResponds == ~res.threw

\* the synthesizer of r still writes to the directory entry of its key: no
\* delete has unlinked the file it opened
WritesEntry(r) == r.linked \/ ~writerOpensFile

\* C14: the fileKey of a successful create is an md5 token and names the
\* entry holding its audio; as long as no delete removes that entry a
\* fetch of the key is accepted and answered 200 with the audio, a delete
\* of the key is accepted, answered 200 and removes the entry, and a fetch
\* of the key after that is answered 400.
C14_KeyRoundTrip ==
    [][/\ \A r \in InFlight :
             (SpeakTextAsyncDone(r, "SynthesizingAudioCompleted") /\ WritesEntry(r))
             => /\ res'.status = 200 /\ isMD5(res'.fileKey)
                /\ files'[res'.fileKey] = Audio
       /\ \A k \in Keys :
             /\ (GetValidate(k) /\ files[k] = Audio)
                => inflight' = Add([NoRequest EXCEPT !.op = "get", !.key = k])
             /\ (DeleteValidate(k) /\ files[k] = Audio)
                => inflight' = Add([NoRequest EXCEPT !.op = "delete", !.key = k])
             /\ (GetValidate(k) /\ files[k] = Absent)
                => (res'.op = "get" /\ res'.status = 400 /\ inflight' = inflight)
       /\ \A r \in InFlight :
             /\ (GetFile(r) /\ files[r.key] = Audio)
                => /\ res'.op = "get" /\ res'.status = 200
                   /\ res'.key = r.key /\ res'.content = Audio
             /\ (DeleteFile(r) /\ files[r.key] = Audio)
                => /\ res'.op = "delete" /\ res'.status = 200 /\ res'.key = r.key
                   /\ files'[r.key] = Absent]_vars

\* the audio of a synthesized key was fetched with 200 and a delete of the
\* same key has passed its validation
C14_Witness ==
    /\ res.op = "get" /\ res.status = 200 /\ res.content = Audio
    /\ res.key \in invoked
    /\ \E r \in InFlight : r.op = "delete" /\ r.key = res.key

\* number of creates for token k that are waiting for the gateway
AtGateway(k) ==
    BagCardinality([r \in {q \in InFlight : q.op = "create" /\ q.key = k} |-> inflight[r]])

\* C15: the create handler takes no account of the syntheses under way: a
\* valid create that finds no entry for its key (and passes the capacity
\* guard) is handed to the gateway also while another create with the same
\* fingerprint is waiting for the gateway, so that two creates with one
\* fingerprint have both observed exists(key) = false and are both at the
\* gateway.
C15_DuplicateSynthesis ==
    [][\A req \in Requests :
          (CacheMissCreate(req) /\ EntryCount <= fileLimit /\ AtGateway(md5Hash(req.body)) >= 1)
          => /\ GatewayInvoked(req)
             /\ AtGateway(md5Hash(req.body))' = AtGateway(md5Hash(req.body)) + 1]_vars

\* two creates with the same fingerprint are waiting for the gateway
C15_Witness == \E k \in Keys : AtGateway(k) >= 2 /\ k \in invoked

AnsweredAtOnce(req) ==
    /\ res'.op = "post" /\ res'.status \in {200, 400, 507}
    /\ res'.body = req.body /\ res'.query = req.query
    /\ inflight' = inflight

\* the step hands the create request to the gateway and sends nothing
HandedOver(req) ==
    /\ res' = res
    /\ \E r \in BagToSet(inflight') :
          /\ r.op = "create" /\ r.body = req.body /\ ~Pending(r.id)
          /\ inflight' = Add(r)

\* the step is the one response, 200 or 500, to the pending create r
AnsweredByCallback(r) ==
    /\ res'.op = "post" /\ res'.status \in {200, 500}
    /\ res'.body = r.body /\ res'.query = r.query
    /\ inflight' = inflight (-) SetToBag({r})
    /\ ~Pending(r.id)'

C18_EntriesImmutable ==
    [][\A k \in Keys :
          (files[k] # Absent /\ files'[k] # Absent) => files'[k] = files[k]]_vars

\* the gateway call that the step issues for req carries the text and the
\* voice of req, the provider default voice ("") when req has no voice
OwnTextAndVoice(req) ==
    \E r \in BagToSet(inflight') :
        /\ r.op = "create" /\ ~Pending(r.id) /\ inflight' = Add(r)
        /\ r.body = req.body
        /\ r.text = Field(req.body, "text").s
        /\ r.voice = Field(req.body, "voice").s

\* C19 as stated: the output directory is the only state that requests
\* share (no step changes any other state that outlives its request), and
\* the gateway call of every create carries the text and the voice of its
\* own request.
C19_OnlyDirectoryShared ==
    [][/\ speechSynthesisVoiceName' = speechSynthesisVoiceName
       /\ \A req \in Requests : GatewayInvoked(req) => OwnTextAndVoice(req)]_vars

\* C19 amended: the speech configuration is shared too, and every create
\* that goes to the gateway overwrites its voice with its own (with none
\* when it has no voice) in the step that builds its synthesizer; so the
\* gateway call of every create carries the text and the voice of its own
\* request, the provider default when it has none, whatever voice an
\* earlier or pending create has left there; no other step writes it.
C19_VoiceIsolation ==
    [][/\ \A req \in Requests :
             GatewayInvoked(req)
             => (OwnTextAndVoice(req) /\ speechSynthesisVoiceName' = Field(req.body, "voice").s)
       /\ (\A req \in Requests : ~GatewayInvoked(req))
             => speechSynthesisVoiceName' = speechSynthesisVoiceName]_vars

\* a create without voice is at the gateway with the default voice, handed
\* over while a create with the voice Ava was pending
C19_Witness ==
    \E q, r \in InFlight :
        /\ q.op = "create" /\ q.voice = VoiceAva.s /\ q.id = 1
        /\ r.op = "create" /\ Field(r.body, "voice") = Undefined /\ r.voice = "" /\ r.id = 2
        /\ speechSynthesisVoiceName = ""

\* C20: two accepted create requests with the same text and different
\* voices, or one with a voice and one without, get different keys.
C20_VoiceInFingerprint ==
    \A i, j \in 1..Len(fp) :
        (/\ fp[i].valid /\ fp[j].valid
         /\ Field(fp[i].body, "text") = Field(fp[j].body, "text")
         /\ Field(fp[i].body, "voice") # Field(fp[j].body, "voice"))
        => fp[i].key # fp[j].key

\* the same text was fingerprinted with a voice and without one, and with
\* nothing else in the body
C20_Witness ==
    /\ Len(fp) = 2
    /\ fp[1].valid /\ fp[2].valid
    /\ fp[1].body = <<TextHello>>
    /\ fp[2].body = <<TextHello, VoiceAva>>
    /\ fp[1].key # fp[2].key

\* the name of a value of the gender enumeration
GenderName(e) == CHOOSE n \in DOMAIN SynthesisVoiceGender : SynthesisVoiceGender[n] = e

\* the identifiers, in provider order, of the voices whose gender is g, of
\* all voices when g is no filter
RECURSIVE NamesOfGender(_, _)
NamesOfGender(voices, g) ==
    IF voices = <<>>
    THEN <<>>
    ELSE LET rest == NamesOfGender(Tail(voices), g)
         IN IF g = "" \/ GenderName(Head(voices).gender) = g
            THEN <<Head(voices).shortName>> \o rest
            ELSE rest

\* C21: a voices request with gender Female, Male or Neutral that the
\* provider answers with a voice list is answered 200 with exactly the
\* identifiers of the provider's voices of that gender, in provider order;
\* without gender, with the identifiers of all of them; a gender outside
\* the three is answered 400 and the provider is not called.
C21_GenderFilter ==
    [][/\ \A r \in InFlight, voices \in VoiceLists :
             GetVoicesAsyncDone(r, "VoicesListRetrieved", voices)
             => /\ res'.op = "voices" /\ res'.status = 200
                /\ res'.voices = NamesOfGender(voices, r.gender)
       /\ \A locale \in VoicesLocales, gender \in VoicesGenders :
             GetVoices(locale, gender)
             => IF gender \in {"", "Female", "Male", "Neutral"}
                THEN ValidVoicesQuery(locale, gender)
                     => inflight' = Add([NoRequest EXCEPT !.op = "voices", !.gender = gender,
                                              !.synthesizer = "open"])
                ELSE /\ res'.op = "voices" /\ res'.status = 400
                     /\ inflight' = inflight]_vars

\* the Neutral voices of a provider list with voices of every gender were
\* returned, in provider order
C21_Witness ==
    /\ res.op = "voices" /\ res.status = 200
    /\ res.voices = <<"Ash", "Sam">>

\* C22: when a create is answered 200 with a fileKey, from the cache or
\* from the synthesis callback, the directory holds the entry of that key,
\* whatever deletes of the key ran in between.
C22_SuccessImpliesPresence ==
    [][/\ \A r \in InFlight :
             SpeakTextAsyncDone(r, "SynthesizingAudioCompleted")
             => /\ res'.status = 200 /\ res'.fileKey = r.key
                /\ files'[res'.fileKey] # Absent
       /\ \A req \in Requests :
             CacheHitCreate(req)
             => /\ res'.status = 200
                /\ files'[res'.fileKey] # Absent]_vars

\* C23: the answer of GET /text2speech holds, once each, exactly the keys
\* for which fileWithKeyExists is true when the directory is read: every
\* listed key passes the validation of a fetch and every key that passes
\* it is listed.
C23_ListAgreesWithExists ==
    [][ListFiles
       => /\ res'.op = "list" /\ res'.status = 200
          /\ \A i \in 1..Len(res'.keys) :
                \E k \in Keys : res'.keys[i] = Name(k, "") /\ ValidFileKey(k)
          /\ \A k \in Keys \cup FileKeys :
                fileWithKeyExists(k)
                <=> Cardinality({i \in 1..Len(res'.keys) : res'.keys[i] = Name(k, "")}) = 1
          /\ \A i, j \in 1..Len(res'.keys) : res'.keys[i] = res'.keys[j] => i = j]_vars

\* a listing of a directory with two entries, both listed
C23_Witness ==
    /\ res.op = "list" /\ res.status = 200
    /\ Len(res.keys) = 2
    /\ \A i \in 1..2 : \E k \in Keys : res.keys[i] = Name(k, "") /\ Present(k)

\* the step belongs to a fetch, a listing or a voices request
ReadOnlyStep ==
    \/ \E k \in FileKeys : GetValidate(k)
    \/ \E r \in InFlight : GetFile(r)
    \/ ListFiles
    \/ \E locale \in Locales, gender \in Genders : GetVoices(locale, gender)
    \/ \E r \in InFlight, outcome \in VoicesOutcomes, voices \in ProviderVoices :
          GetVoicesAsyncDone(r, outcome, voices)

\* the step belongs to a create that reaches the synthesis: the hand-over to
\* the gateway or one of the gateway's callbacks
SynthesisStep ==
    \/ \E req \in Requests : GatewayInvoked(req)
    \/ \E r \in InFlight, outcome \in SynthesisOutcomes : SpeakTextAsyncDone(r, outcome)

\* the step is a delete answered 200
SuccessfulDelete == \E r \in InFlight : DeleteFile(r) /\ res'.status = 200

\* C24: fetch, listing and voices requests, and every request answered
\* 400, leave the entries of the directory and their contents as they
\* were; the directory changes only in a create that reaches the synthesis
\* and in a delete answered 200.
C24_ReadOnlyFrame ==
    [][/\ ReadOnlyStep => (files' = files /\ foreign' = foreign)
       /\ (res' # res /\ res'.status = 400) => (files' = files /\ foreign' = foreign)
       /\ (files' # files \/ foreign' # foreign) => (SynthesisStep \/ SuccessfulDelete)]_vars

\* a fetch was answered with the audio of an entry and the entry is still
\* there with the same audio
C24_Witness ==
    /\ res.op = "get" /\ res.status = 200
    /\ res.content = Audio /\ files[res.key] = Audio

\* the calls of speakTextAsync that have not reported yet, as a bag
PendingCreates == [q \in {c \in InFlight : c.op = "create"} |-> inflight[q]]

\* C25: a create request calls the synthesis gateway at most once: the
\* handler starts at most one call, and a call that reports, with success
\* or failure, ends without another call being started; a failure is
\* answered 500 for the request in that step.
C25_NoRetry ==
    [][/\ \A req \in Requests :
             PostText2Speech(req)
             => \/ PendingCreates' = PendingCreates
                \/ \E q \in BagToSet(PendingCreates') :
                      /\ q.body = req.body
                      /\ PendingCreates' = PendingCreates (+) SetToBag({q})
       /\ \A r \in InFlight, outcome \in SynthesisOutcomes :
             SpeakTextAsyncDone(r, outcome)
             => /\ PendingCreates' = PendingCreates (-) SetToBag({r})
                /\ invoked' = invoked
                /\ res'.op = "post" /\ res'.body = r.body
                /\ outcome # "SynthesizingAudioCompleted" => res'.status = 500]_vars

\* a create was answered 500 and no call of the gateway is pending
C25_Witness ==
    /\ res.op = "post" /\ res.status = 500
    /\ PendingCreates = EmptyBag
    /\ invoked # {}

\* C26: when creates are handled one at a time and the directory starts
\* with at most fileLimit entries, it never holds more than fileLimit + 1
\* entries; while it holds more than fileLimit every create without a
\* cache entry is answered 507 and starts no synthesis, and the count only
\* comes back to fileLimit by a delete answered 200.
C26_EffectiveCeiling ==
    [][/\ EntryCount <= fileLimit + 1 /\ EntryCount' <= fileLimit + 1
       /\ \A req \in Requests :
             (CacheMissCreate(req) /\ EntryCount > fileLimit)
             => /\ res'.op = "post" /\ res'.status = 507
                /\ inflight' = inflight /\ files' = files
       /\ (EntryCount > fileLimit /\ EntryCount' <= fileLimit) => SuccessfulDelete]_vars

\* the directory holds fileLimit + 1 entries and a create without a cache
\* entry has been answered 507
C26_Witness ==
    /\ EntryCount = fileLimit + 1
    /\ res.op = "post" /\ res.status = 507
    /\ ~Present(md5Hash(res.body))

\* C27: the synthesizer of a create or of a voices request stays open
\* while the gateway call is pending, and the step in which the call
\* reports (a result with or without success, the error callback, an
\* exception out of getVoicesAsync) closes it exactly once.
C27_SynthesizerRelease ==
    [][/\ \A r \in InFlight, outcome \in SynthesisOutcomes :
             SpeakTextAsyncDone(r, outcome)
             => r.synthesizer = "open" /\ res'.closed = 1
       /\ \A r \in InFlight, outcome \in VoicesOutcomes, voices \in ProviderVoices :
             GetVoicesAsyncDone(r, outcome, voices)
             => r.synthesizer = "open" /\ res'.closed = 1
       /\ \A r \in BagToSet(inflight') :
             r.op \in {"create", "voices"} => r.synthesizer = "open"]_vars

\* a voices request whose gateway call failed was answered 500 and its
\* synthesizer was closed once
C27_Witness ==
    /\ res.op = "voices" /\ res.status = 500
    /\ res.closed = 1

====
